---- MODULE Spec2Model ----
(***************************************************************************)
(* A model of fsdb, a record store that keeps tables as directories,       *)
(* records as JSON files, secondary indexes as directories of symbolic     *)
(* links and relations as records with a compound key.                     *)
(*                                                                         *)
(* Strings are sequences of one-character strings, so that the string      *)
(* tests of the code ("in", lstrip, partition, glob) are computed on the   *)
(* characters.  A pathlib.Path is the sequence of its parts below "/".     *)
(* The filesystem is a function from physical paths to nodes.              *)
(***************************************************************************)
EXTENDS Integers, Sequences, FiniteSets, TLC

VARIABLES
    fs,      \* the directory tree: physical path -> node
    last,    \* the last completed engine call: operation, arguments, outcome
    procs,   \* per process: the call in progress and its position in it
    sameFS   \* whether the scratch directory and the root share a filesystem

vars == <<fs, last, procs, sameFS>>

(***************************************************************************)
(* Bounds of the model.                                                    *)
(***************************************************************************)
MaxLinkDepth == 3

(***************************************************************************)
(* Strings.                                                                *)
(***************************************************************************)
DOTDOT == <<".", ".">>
SLASH == <<"/">>
BACKSLASH == <<"\\">>
AT == <<"@">>
COLON == <<":">>
DASH == <<"-">>

\* Python's "sub in s" on strings.
StrIn(sub, s) ==
    \E i \in 1..(Len(s) - Len(sub) + 1) : SubSeq(s, i, i + Len(sub) - 1) = sub

\* s.lstrip(c): s without its leading run of the character c.
RECURSIVE lstrip(_, _)
lstrip(s, c) ==
    IF s # <<>> /\ Head(s) = c THEN lstrip(Tail(s), c) ELSE s

\* s.partition(":"): <<before, sep, after>> at the first separator.
RECURSIVE PartitionFrom(_, _, _)
PartitionFrom(before, s, c) ==
    IF s = <<>> THEN <<before, <<>>, <<>>>>
    ELSE IF Head(s) = c THEN <<before, <<c>>, Tail(s)>>
    ELSE PartitionFrom(Append(before, Head(s)), Tail(s), c)

partition(s, c) == PartitionFrom(<<>>, s, c)

\* The parts pathlib keeps of a string: split at "/", without the empty
\* parts and the "." parts; ".." is kept.
RECURSIVE SplitParts(_, _)
SplitParts(cur, s) ==
    LET keep == IF cur = <<>> \/ cur = <<".">> THEN <<>> ELSE <<cur>>
    IN  IF s = <<>> THEN keep
        ELSE IF Head(s) = "/" THEN keep \o SplitParts(<<>>, Tail(s))
        ELSE SplitParts(Append(cur, Head(s)), Tail(s))

PathParts(s) == SplitParts(<<>>, s)

\* pathlib's base / s: an absolute s replaces the base.
Join(base, s) ==
    IF s # <<>> /\ Head(s) = "/" THEN PathParts(s) ELSE base \o PathParts(s)

(***************************************************************************)
(* The filesystem.                                                         *)
(***************************************************************************)
TOP == <<>>
DirNode == [kind |-> "dir"]
FileNode(data) == [kind |-> "file", data |-> data]
SymlinkNode(target) == [kind |-> "symlink", target |-> target]

Parent(p) == IF p = <<>> THEN <<>> ELSE SubSeq(p, 1, Len(p) - 1)
IsPrefix(p, q) == Len(p) <= Len(q) /\ SubSeq(q, 1, Len(p)) = p

IsDirAt(f, p) == p \in DOMAIN f /\ f[p].kind = "dir"

\* Path resolution as the kernel does it: every directory on the way must
\* exist, ".." is the physical parent, a symbolic link on the way is
\* followed, the last part is followed only if followLast.  The result is
\* the physical path, which may name nothing.
RECURSIVE Walk(_, _, _, _, _)
Walk(f, cur, parts, followLast, fuel) ==
    IF parts = <<>> THEN [ok |-> TRUE, path |-> cur, err |-> "none"]
    ELSE IF cur \notin DOMAIN f THEN [ok |-> FALSE, path |-> cur, err |-> "FileNotFoundError"]
    ELSE IF f[cur].kind # "dir" THEN [ok |-> FALSE, path |-> cur, err |-> "NotADirectoryError"]
    ELSE
        LET c == Head(parts)
            rest == Tail(parts)
            nxt == Append(cur, c)
        IN  IF c = DOTDOT THEN Walk(f, Parent(cur), rest, followLast, fuel)
            ELSE IF rest = <<>> /\ ~followLast THEN [ok |-> TRUE, path |-> nxt, err |-> "none"]
            ELSE IF nxt \notin DOMAIN f THEN
                IF rest = <<>> THEN [ok |-> TRUE, path |-> nxt, err |-> "none"]
                ELSE [ok |-> FALSE, path |-> nxt, err |-> "FileNotFoundError"]
            ELSE IF f[nxt].kind = "symlink" THEN
                IF fuel = 0 THEN [ok |-> FALSE, path |-> nxt, err |-> "OSError"]
                ELSE Walk(f, cur, f[nxt].target \o rest, followLast, fuel - 1)
            ELSE Walk(f, nxt, rest, followLast, fuel)

Stat(f, p) == Walk(f, TOP, p, TRUE, MaxLinkDepth)
LStat(f, p) == Walk(f, TOP, p, FALSE, MaxLinkDepth)

\* Path.exists / is_file / is_dir follow links; is_symlink does not.
exists(f, p) == LET w == Stat(f, p) IN w.ok /\ w.path \in DOMAIN f
is_file(f, p) == LET w == Stat(f, p) IN w.ok /\ w.path \in DOMAIN f /\ f[w.path].kind = "file"
is_dir(f, p) == LET w == Stat(f, p) IN w.ok /\ w.path \in DOMAIN f /\ f[w.path].kind = "dir"
is_symlink(f, p) == LET w == LStat(f, p) IN w.ok /\ w.path \in DOMAIN f /\ f[w.path].kind = "symlink"

Without(f, ps) == [q \in DOMAIN f \ ps |-> f[q]]
With(f, p, node) == [q \in DOMAIN f \cup {p} |-> IF q = p THEN node ELSE f[q]]

\* The result of a step that may raise: the filesystem it leaves, the
\* exception ("none" if it returned) and the value it returned.
Ok(f) == [fs |-> f, err |-> "none", ret |-> <<>>]
Raise(f, e) == [fs |-> f, err |-> e, ret |-> <<>>]
Ret(f, v) == [fs |-> f, err |-> "none", ret |-> v]

\* Path.unlink(missing_ok).
unlink(f, p, missing_ok) ==
    LET w == LStat(f, p)
    IN  IF ~w.ok THEN
            IF w.err = "FileNotFoundError" /\ missing_ok THEN Ok(f) ELSE Raise(f, w.err)
        ELSE IF w.path \notin DOMAIN f THEN
            IF missing_ok THEN Ok(f) ELSE Raise(f, "FileNotFoundError")
        ELSE IF f[w.path].kind = "dir" THEN Raise(f, "IsADirectoryError")
        ELSE Ok(Without(f, {w.path}))

\* Path.symlink_to(target).
symlink_to(f, p, target) ==
    LET w == LStat(f, p)
    IN  IF ~w.ok THEN Raise(f, w.err)
        ELSE IF w.path \in DOMAIN f THEN Raise(f, "FileExistsError")
        ELSE IF ~IsDirAt(f, Parent(w.path)) THEN Raise(f, "FileNotFoundError")
        ELSE Ok(With(f, w.path, SymlinkNode(target)))

\* Path.mkdir(exist_ok=True), parents=False.
mkdir(f, p) ==
    LET w == LStat(f, p)
    IN  IF ~w.ok THEN Raise(f, w.err)
        ELSE IF w.path \in DOMAIN f THEN
            IF is_dir(f, p) THEN Ok(f) ELSE Raise(f, "FileExistsError")
        ELSE IF ~IsDirAt(f, Parent(w.path)) THEN Raise(f, "FileNotFoundError")
        ELSE Ok(With(f, w.path, DirNode))

\* shutil.rmtree(p): refuses a symbolic link and a non-directory.
rmtree(f, p) ==
    LET w == LStat(f, p)
    IN  IF ~w.ok THEN Raise(f, w.err)
        ELSE IF w.path \notin DOMAIN f THEN Raise(f, "FileNotFoundError")
        ELSE IF f[w.path].kind = "symlink" THEN Raise(f, "OSError")
        ELSE IF f[w.path].kind # "dir" THEN Raise(f, "NotADirectoryError")
        ELSE Ok(Without(f, {q \in DOMAIN f : IsPrefix(w.path, q)}))

\* open(p, "r").read(): <<>> if the open fails, else <<content>>.
read_file(f, p) ==
    LET w == Stat(f, p)
    IN  IF w.ok /\ w.path \in DOMAIN f /\ f[w.path].kind = "file"
        THEN <<f[w.path].data>> ELSE <<>>

\* open(p, "w"): creates or truncates, through a final link.
open_w(f, p) ==
    LET w == Stat(f, p)
    IN  IF ~w.ok THEN Raise(f, w.err)
        ELSE IF w.path \in DOMAIN f /\ f[w.path].kind = "dir" THEN Raise(f, "IsADirectoryError")
        ELSE IF ~IsDirAt(f, Parent(w.path)) THEN Raise(f, "FileNotFoundError")
        ELSE Ok(With(f, w.path, FileNode(<<>>)))

\* f.write(text) on the file opened at p: appends to the open file.
write_to(f, p, text) ==
    LET w == Stat(f, p)
    IN  With(f, w.path, FileNode(f[w.path].data \o text))

\* The names in directory p, as Path.iterdir / glob("*") list them.
listdir(f, p) ==
    LET w == Stat(f, p)
    IN  IF w.ok /\ IsDirAt(f, w.path)
        THEN {q[Len(q)] : q \in {r \in DOMAIN f : r # <<>> /\ Parent(r) = w.path /\ r # w.path}}
        ELSE {}


\* shutil.move(src, dst) of a regular file: into dst if dst is a directory,
\* else os.rename over dst (which replaces a link at dst, not its target).
\* When rename fails, shutil.move copies; the copy fails the same way here.
move(f, src, dst) ==
    LET real_dst == IF is_dir(f, dst) THEN Append(dst, src[Len(src)]) ELSE dst
        w == LStat(f, real_dst)
        s == LStat(f, src)
    IN  IF is_dir(f, dst) /\ exists(f, real_dst) THEN Raise(f, "Error")
        ELSE IF ~s.ok \/ s.path \notin DOMAIN f THEN Raise(f, "FileNotFoundError")
        ELSE IF ~w.ok THEN Raise(f, w.err)
        ELSE IF ~IsDirAt(f, Parent(w.path)) THEN Raise(f, "FileNotFoundError")
        ELSE Ok(With(Without(f, {s.path}), w.path, f[s.path]))

(***************************************************************************)
(* Documents and their JSON text.  A document is a Python dict: the        *)
(* sequence of its <<key, value>> items in insertion order, a value being  *)
(* a string or a non-negative integer.  None is <<>> and a present value v *)
(* is <<v>>.                                                               *)
(***************************************************************************)
StrVal(s) == [t |-> "str", s |-> s]
IntVal(n) == [t |-> "int", n |-> n]

None == <<>>
Some(v) == <<v>>

DigitChars == <<"0", "1", "2", "3", "4", "5", "6", "7", "8", "9">>
IsDigit(c) == \E i \in 1..10 : DigitChars[i] = c
DigitVal(c) == (CHOOSE i \in 1..10 : DigitChars[i] = c) - 1

RECURSIVE Digits(_)
Digits(n) ==
    IF n < 10 THEN <<DigitChars[n + 1]>>
    ELSE Append(Digits(n \div 10), DigitChars[(n % 10) + 1])

\* Python's str(value).
str(v) == IF v.t = "int" THEN Digits(v.n) ELSE v.s

\* "field in data" and data[field] on a dict.
HasKey(doc, k) == \E i \in 1..Len(doc) : doc[i][1] = k
Lookup(doc, k) == doc[CHOOSE i \in 1..Len(doc) : doc[i][1] = k][2]

\* Python's truth of "dict | None": None and the empty dict are false.
Truthy(opt) == opt # None /\ opt[1] # <<>>

\* json.dumps of a string: quoted, with the quote and the backslash escaped.
RECURSIVE Escape(_)
Escape(s) ==
    IF s = <<>> THEN <<>>
    ELSE IF Head(s) = "\"" \/ Head(s) = "\\" THEN <<"\\", Head(s)>> \o Escape(Tail(s))
    ELSE <<Head(s)>> \o Escape(Tail(s))

Quoted(s) == <<"\"">> \o Escape(s) \o <<"\"">>

EncodeValue(v) == IF v.t = "int" THEN Digits(v.n) ELSE Quoted(v.s)

RECURSIVE EncodeItems(_)
EncodeItems(doc) ==
    IF doc = <<>> THEN <<>>
    ELSE Quoted(doc[1][1]) \o <<":", " ">> \o EncodeValue(doc[1][2])
         \o (IF Len(doc) > 1 THEN <<",", " ">> ELSE <<>>) \o EncodeItems(Tail(doc))

\* json.dumps(data) with the default separators.
dumps(doc) == <<"{">> \o EncodeItems(doc) \o <<"}">>

\* The JSON parser, on the characters.  Each step returns whether it
\* succeeded, the value read and the text after it.
PFail == [ok |-> FALSE, val |-> <<>>, rest |-> <<>>]
POk(v, rest) == [ok |-> TRUE, val |-> v, rest |-> rest]

RECURSIVE SkipWs(_)
SkipWs(s) == IF s # <<>> /\ Head(s) = " " THEN SkipWs(Tail(s)) ELSE s

RECURSIVE ReadString(_, _)
ReadString(acc, s) ==
    IF s = <<>> THEN PFail
    ELSE IF Head(s) = "\"" THEN POk(acc, Tail(s))
    ELSE IF Head(s) = "\\" THEN
        IF Len(s) >= 2 /\ (s[2] = "\"" \/ s[2] = "\\")
        THEN ReadString(Append(acc, s[2]), Tail(Tail(s)))
        ELSE PFail
    ELSE ReadString(Append(acc, Head(s)), Tail(s))

RECURSIVE ReadDigits(_, _)
ReadDigits(n, s) ==
    IF s # <<>> /\ IsDigit(Head(s)) THEN ReadDigits(10 * n + DigitVal(Head(s)), Tail(s))
    ELSE POk(n, s)

ParseValue(s) ==
    IF s = <<>> THEN PFail
    ELSE IF Head(s) = "\"" THEN
        LET r == ReadString(<<>>, Tail(s)) IN IF r.ok THEN POk(StrVal(r.val), r.rest) ELSE PFail
    ELSE IF IsDigit(Head(s)) THEN
        \* JSON allows no leading zero
        IF Head(s) = "0" /\ Len(s) >= 2 /\ IsDigit(s[2]) THEN PFail
        ELSE LET r == ReadDigits(0, s) IN POk(IntVal(r.val), r.rest)
    ELSE PFail

\* The items after "{" or after ",": key, colon, value, then "," or "}".
RECURSIVE ParseItems(_, _)
ParseItems(acc, s0) ==
    LET s == SkipWs(s0)
    IN  IF s = <<>> \/ Head(s) # "\"" THEN PFail
        ELSE
            LET k == ReadString(<<>>, Tail(s))
                s1 == SkipWs(k.rest)
            IN  IF ~k.ok \/ s1 = <<>> \/ Head(s1) # ":" THEN PFail
                ELSE
                    LET v == ParseValue(SkipWs(Tail(s1)))
                        s2 == SkipWs(v.rest)
                        items == Append(acc, <<k.val, v.val>>)
                    IN  IF ~v.ok \/ s2 = <<>> THEN PFail
                        ELSE IF Head(s2) = "}" THEN POk(items, Tail(s2))
                        ELSE IF Head(s2) = "," THEN ParseItems(items, Tail(s2))
                        ELSE PFail

\* json.loads(text) of an object: None when the text does not parse.
loads(text) ==
    LET s == SkipWs(text)
    IN  IF s = <<>> \/ Head(s) # "{" THEN None
        ELSE
            LET s1 == SkipWs(Tail(s))
            IN  IF s1 # <<>> /\ Head(s1) = "}" THEN
                    IF SkipWs(Tail(s1)) = <<>> THEN Some(<<>>) ELSE None
                ELSE
                    LET r == ParseItems(<<>>, s1)
                    IN  IF r.ok /\ SkipWs(r.rest) = <<>> THEN Some(r.val) ELSE None


\* All orders in which a directory listing may yield the names in S.
Perms(S) ==
    {o \in [1..Cardinality(S) -> S] : \A i, j \in 1..Cardinality(S) : i # j => o[i] # o[j]}

(***************************************************************************)
(* The engine (class FSDB).  root and workdir are the two directories the  *)
(* constructor is given; ETC is a directory beside them that is not part   *)
(* of the database.                                                        *)
(***************************************************************************)
ROOT == <<<<"d", "b">>>>
WORKDIR == <<<<"w", "k">>>>
ETC == <<<<"e", "t", "c">>>>

\* _safe_name(name) raises ValueError.
Unsafe(name) == StrIn(DOTDOT, name) \/ StrIn(SLASH, name) \/ StrIn(BACKSLASH, name)

\* _target_f(table, name): the path, or ValueError.  An empty name is
\* false in "if name" and gives the table's path.
_target_f(table, name) ==
    IF Unsafe(table) THEN [err |-> "ValueError", path |-> <<>>]
    ELSE IF name # <<>> THEN
        IF Unsafe(name) THEN [err |-> "ValueError", path |-> <<>>]
        ELSE [err |-> "none", path |-> Join(Join(ROOT, table), name)]
    ELSE [err |-> "none", path |-> Join(ROOT, table)]

\* The temporary file of one _write call.
TmpPath(table, pk, uuid) == Join(WORKDIR, table \o DASH \o pk \o DASH \o uuid)

\* The except clause of _write: remove the temporary file, re-raise.
WriteCleanup(f, tmp, e) ==
    IF exists(f, tmp) THEN
        LET u == unlink(f, tmp, FALSE)
        IN  IF u.err # "none" THEN Raise(u.fs, u.err) ELSE Raise(u.fs, e)
    ELSE Raise(f, e)

\* _write(table, pk, data), run to completion.
_write(f, table, pk, data, uuid) ==
    LET t0 == _target_f(table, <<>>)
        t1 == _target_f(table, pk)
        tmp == TmpPath(table, pk, uuid)
    IN  IF t0.err # "none" THEN Raise(f, t0.err)
        ELSE IF ~exists(f, t0.path) THEN Raise(f, "FileNotFoundError")
        ELSE IF t1.err # "none" THEN Raise(f, t1.err)
        ELSE
            LET o == open_w(f, tmp)
            IN  IF o.err # "none" THEN WriteCleanup(o.fs, tmp, o.err)
                ELSE
                    LET m == move(write_to(o.fs, tmp, dumps(data)), tmp, t1.path)
                    IN  IF m.err # "none" THEN WriteCleanup(m.fs, tmp, m.err)
                        ELSE Ok(m.fs)

\* get(table, pk): the document, or None when the file is missing, is not
\* a regular file or does not parse.
get(f, table, pk) ==
    LET t == _target_f(table, pk)
    IN  IF t.err # "none" THEN Raise(f, t.err)
        ELSE IF exists(f, t.path) /\ is_file(f, t.path) THEN
            LET r == read_file(f, t.path)
            IN  IF r = <<>> THEN Ret(f, None) ELSE Ret(f, loads(r[1]))
        ELSE Ret(f, None)

\* _index(table, pk, field, value).
_index(f, table, pk, field, value) ==
    LET t == _target_f(table, AT \o field)
    IN  IF t.err # "none" THEN Raise(f, t.err)
        ELSE
            LET index == Join(t.path, value)
                target == Join(<<DOTDOT>>, pk)
                u == unlink(f, index, TRUE)
            IN  IF u.err # "none" THEN u ELSE symlink_to(u.fs, index, target)

\* The names (root / table).glob("@*") yields.
IndexDirs(f, table) ==
    {n \in listdir(f, Join(ROOT, table)) : n # <<>> /\ Head(n) = "@"}

\* link.readlink(): the target of the link at p.
readlink(f, p) == f[LStat(f, p).path].target

\* The body of the loop of _update_index for one index directory.
UpdateOneIndex(f, table, pk, old, new, name) ==
    LET idxdir == Join(Join(ROOT, table), name)
        field == lstrip(name, "@")
    IN  IF ~is_dir(f, idxdir) THEN Ok(f)
        ELSE
            LET r == IF /\ Truthy(old)
                        /\ HasKey(old[1], field)
                        /\ is_symlink(f, Join(idxdir, str(Lookup(old[1], field))))
                        /\ readlink(f, Join(idxdir, str(Lookup(old[1], field))))
                              = PathParts(DOTDOT \o SLASH \o pk)
                     THEN unlink(f, Join(idxdir, str(Lookup(old[1], field))), FALSE)
                     ELSE Ok(f)
            IN  IF r.err # "none" THEN r
                ELSE IF Truthy(new) /\ HasKey(new[1], field)
                     THEN _index(r.fs, table, pk, field, str(Lookup(new[1], field)))
                     ELSE Ok(r.fs)

\* _update_index(table, pk, old, new) over the index directories in the
\* order the listing yields them; an exception ends the loop.
RECURSIVE UpdateIndexIn(_, _, _, _, _, _)
UpdateIndexIn(f, table, pk, old, new, order) ==
    IF order = <<>> THEN Ok(f)
    ELSE
        LET r == UpdateOneIndex(f, table, pk, old, new, Head(order))
        IN  IF r.err # "none" THEN r
            ELSE UpdateIndexIn(r.fs, table, pk, old, new, Tail(order))

\* The outcomes of _update_index, one per listing order.
_update_index(f, table, pk, old, new) ==
    {UpdateIndexIn(f, table, pk, old, new, o) : o \in Perms(IndexDirs(f, table))}

\* insert without its existence test: the record is written over whatever
\* the key holds.
insert_overwrites(f, table, pk, data, uuid) ==
    LET t == _target_f(table, pk)
    IN  IF t.err # "none" THEN {Raise(f, t.err)}
        ELSE
            LET w == _write(f, table, pk, data, uuid)
            IN  IF w.err # "none" THEN {w}
                ELSE _update_index(w.fs, table, pk, None, Some(data))

\* insert(table, pk, data): its possible outcomes.
insert(f, table, pk, data, uuid) ==
    LET t == _target_f(table, pk)
    IN  IF t.err # "none" THEN {Raise(f, t.err)}
        ELSE IF exists(f, t.path) THEN {Raise(f, "FileExistsError")}
        ELSE
            LET w == _write(f, table, pk, data, uuid)
            IN  IF w.err # "none" THEN {w}
                ELSE _update_index(w.fs, table, pk, None, Some(data))

\* update(table, pk, data).
update(f, table, pk, data, uuid) ==
    LET current == get(f, table, pk)
    IN  IF current.err # "none" THEN {current}
        ELSE IF ~Truthy(current.ret) THEN {Raise(f, "FileNotFoundError")}
        ELSE
            LET w == _write(f, table, pk, data, uuid)
            IN  IF w.err # "none" THEN {w}
                ELSE _update_index(w.fs, table, pk, current.ret, Some(data))

\* upsert(table, pk, data).
upsert(f, table, pk, data, uuid) ==
    LET current == get(f, table, pk)
    IN  IF current.err # "none" THEN {current}
        ELSE
            LET w == _write(f, table, pk, data, uuid)
            IN  IF w.err # "none" THEN {w}
                ELSE _update_index(w.fs, table, pk, current.ret, Some(data))

\* delete(table, pk) -> bool.
delete(f, table, pk) ==
    LET current == get(f, table, pk)
        t == _target_f(table, pk)
    IN  IF current.err # "none" THEN {current}
        ELSE IF ~Truthy(current.ret) THEN {Ret(f, FALSE)}
        ELSE IF exists(f, t.path) THEN
            LET u == unlink(f, t.path, FALSE)
            IN  IF u.err # "none" THEN {u}
                ELSE {IF r.err # "none" THEN r ELSE Ret(r.fs, TRUE) :
                        r \in _update_index(u.fs, table, pk, current.ret, None)}
        ELSE {Ret(f, FALSE)}

\* create(table).
create(f, table) ==
    LET t == _target_f(table, <<>>)
    IN  IF t.err # "none" THEN Raise(f, t.err) ELSE mkdir(f, t.path)

\* drop(table) -> bool.
drop(f, table) ==
    LET p == Join(ROOT, table)
    IN  IF exists(f, p) THEN
            LET r == rmtree(f, p) IN IF r.err # "none" THEN r ELSE Ret(r.fs, TRUE)
        ELSE Ret(f, FALSE)

\* The records scan yields from the names of the listing, in its order:
\* regular files without ":" in the name whose text parses.
RECURSIVE ScanIn(_, _, _)
ScanIn(f, dir, order) ==
    IF order = <<>> THEN <<>>
    ELSE
        LET name == Head(order)
            p == Join(dir, name)
            r == read_file(f, p)
            doc == IF r = <<>> THEN None ELSE loads(r[1])
        IN  IF ~is_file(f, p) \/ StrIn(COLON, name) \/ doc = None
            THEN ScanIn(f, dir, Tail(order))
            ELSE <<<<name, doc[1]>>>> \o ScanIn(f, dir, Tail(order))

\* list(scan(table)) with the default pattern "*": one outcome per order.
scan(f, table) ==
    LET t == _target_f(table, <<>>)
    IN  IF t.err # "none" THEN {Raise(f, t.err)}
        ELSE {Ret(f, ScanIn(f, t.path, o)) : o \in Perms(listdir(f, t.path))}

\* The loop of create_index over the scanned records.
RECURSIVE BackfillIn(_, _, _, _)
BackfillIn(f, table, field, d) ==
    IF d = <<>> THEN Ok(f)
    ELSE
        LET pk == d[1][1]
            data == d[1][2]
            r == IF HasKey(data, field)
                 THEN _index(f, table, pk, field, str(Lookup(data, field)))
                 ELSE Ok(f)
        IN  IF r.err # "none" THEN r ELSE BackfillIn(r.fs, table, field, Tail(d))

\* create_index(table, field).
create_index(f, table, field) ==
    LET t == _target_f(table, AT \o field)
    IN  UNION {
            IF d.err # "none" THEN {d}
            ELSE IF t.err # "none" THEN {Raise(f, t.err)}
            ELSE LET m == mkdir(f, t.path)
                 IN  IF m.err # "none" THEN {m}
                     ELSE {BackfillIn(m.fs, table, field, d.ret)}
            : d \in scan(f, table)}

\* find(table, field, value).
find(f, table, field, value) ==
    LET t == _target_f(table, AT \o field)
    IN  IF t.err # "none" THEN Raise(f, t.err)
        ELSE
            LET p == Join(t.path, value)
                r == read_file(f, p)
            IN  IF exists(f, p) /\ r # <<>> THEN Ret(f, loads(r[1])) ELSE Ret(f, None)


\* link(src_table, src_pk, dest_table, dest_pk, data): data is None or a
\* document; "data or {}" is the empty document for None and for {}.
link(f, src_table, src_pk, dest_table, dest_pk, data, uuid) ==
    LET s == _target_f(src_table, src_pk)
        d == _target_f(dest_table, dest_pk)
    IN  IF s.err # "none" THEN {Raise(f, s.err)}
        ELSE IF ~exists(f, s.path) THEN {Raise(f, "FileNotFoundError")}
        ELSE IF d.err # "none" THEN {Raise(f, d.err)}
        ELSE IF ~exists(f, d.path) THEN {Raise(f, "FileNotFoundError")}
        ELSE upsert(f, src_table, src_pk \o COLON \o dest_pk,
                    IF Truthy(data) THEN data[1] ELSE <<>>, uuid)

\* query_links(table) with the default patterns: the names matching "*:*",
\* each split at its first ":".
query_links(f, table) ==
    Ret(f, {<<partition(n, ":")[1], partition(n, ":")[3]>> :
              n \in {m \in listdir(f, Join(ROOT, table)) : StrIn(COLON, m)}})

\* lsdb(): the directories directly under the root.
lsdb(f) ==
    IF ~is_dir(f, ROOT) THEN Raise(f, "FileNotFoundError")
    ELSE Ret(f, {n \in listdir(f, ROOT) : is_dir(f, Join(ROOT, n))})

\* lspk(table): the regular files of the table without ":" in the name.
lspk(f, table) ==
    LET d == Join(ROOT, table)
    IN  IF ~exists(f, d) THEN Raise(f, "FileNotFoundError")
        ELSE IF ~is_dir(f, d) THEN Raise(f, "NotADirectoryError")
        ELSE Ret(f, {n \in listdir(f, d) : is_file(f, Append(Stat(f, d).path, n)) /\ ~StrIn(COLON, n)})

\* has_index(table, field).
has_index(f, table, field) == Ret(f, is_dir(f, Join(Join(ROOT, table), AT \o field)))

(***************************************************************************)
(* The state after FSDB(root, workdir): both directories exist.  Beside    *)
(* them lies a directory with a file that is not the database's.           *)
(***************************************************************************)
ETCFILE == Append(ETC, <<"c", "f">>)

InitFS ==
    (TOP :> DirNode) @@ (ROOT :> DirNode) @@ (WORKDIR :> DirNode)
    @@ (ETC :> DirNode) @@ (ETCFILE :> FileNode(<<"#">>))

NoArgs ==
    [table |-> <<>>, pk |-> <<>>, field |-> <<>>, value |-> <<>>, doc |-> None,
     table2 |-> <<>>, pk2 |-> <<>>]

\* The value a call returned, under the name of its type: a bool, a
\* document or None, a list of records, a set of names, a set of pairs.
Returned(op, r) ==
    IF r.err # "none" THEN [none |-> TRUE]
    ELSE CASE op \in {"delete", "drop", "has_index"} -> [bool |-> r.ret]
           [] op \in {"get", "find"} -> [doc |-> r.ret]
           [] op = "scan" -> [list |-> r.ret]
           [] op \in {"list_keys", "list_tables"} -> [names |-> r.ret]
           [] op = "query_links" -> [links |-> r.ret]
           [] OTHER -> [none |-> TRUE]

\* The record of a completed call: its name, its arguments, the exception
\* it raised ("none" if it returned) and the value it returned.
Call(op, args, r) == [op |-> op, err |-> r.err, ret |-> Returned(op, r)] @@ args @@ NoArgs

NoCall == Call("none", NoArgs, [err |-> "none", ret |-> <<>>])

Init ==
    /\ fs = InitFS
    /\ last = NoCall
    /\ procs = <<>>
    /\ sameFS = TRUE

\* The uuid1 of a call of the single writer.
UUID == <<"u">>

(***************************************************************************)
(* The engine's calls, each run to completion, with arguments from the     *)
(* given sets.                                                             *)
(***************************************************************************)
Done(r, c) ==
    /\ fs' = r.fs
    /\ last' = c
    /\ UNCHANGED <<procs, sameFS>>

Create(T) ==
    \E t \in T : \E r \in {create(fs, t)} :
        Done(r, Call("create", [table |-> t], r))

Drop(T) ==
    \E t \in T : \E r \in {drop(fs, t)} :
        Done(r, Call("drop", [table |-> t], r))

Insert(T, K, D) ==
    \E t \in T, k \in K, d \in D : \E r \in insert(fs, t, k, d, UUID) :
        Done(r, Call("insert", [table |-> t, pk |-> k, doc |-> Some(d)], r))

Update(T, K, D) ==
    \E t \in T, k \in K, d \in D : \E r \in update(fs, t, k, d, UUID) :
        Done(r, Call("update", [table |-> t, pk |-> k, doc |-> Some(d)], r))

Upsert(T, K, D) ==
    \E t \in T, k \in K, d \in D : \E r \in upsert(fs, t, k, d, UUID) :
        Done(r, Call("upsert", [table |-> t, pk |-> k, doc |-> Some(d)], r))

Get(T, K) ==
    \E t \in T, k \in K : \E r \in {get(fs, t, k)} :
        Done(r, Call("get", [table |-> t, pk |-> k], r))

Delete(T, K) ==
    \E t \in T, k \in K : \E r \in delete(fs, t, k) :
        Done(r, Call("delete", [table |-> t, pk |-> k], r))

CreateIndex(T, F) ==
    \E t \in T, fl \in F : \E r \in create_index(fs, t, fl) :
        Done(r, Call("create_index", [table |-> t, field |-> fl], r))

Find(T, F, V) ==
    \E t \in T, fl \in F, v \in V : \E r \in {find(fs, t, fl, v)} :
        Done(r, Call("find", [table |-> t, field |-> fl, value |-> v], r))

HasIndex(T, F) ==
    \E t \in T, fl \in F : \E r \in {has_index(fs, t, fl)} :
        Done(r, Call("has_index", [table |-> t, field |-> fl], r))

Link(T, K, K2, OD) ==
    \E t \in T, k \in K, t2 \in T, k2 \in K2, od \in OD :
        \E r \in link(fs, t, k, t2, k2, od, UUID) :
            Done(r, Call("link", [table |-> t, pk |-> k, table2 |-> t2, pk2 |-> k2, doc |-> od], r))

QueryLinks(T) ==
    \E t \in T : \E r \in {query_links(fs, t)} :
        Done(r, Call("query_links", [table |-> t], r))

Scan(T) ==
    \E t \in T : \E r \in scan(fs, t) :
        Done(r, Call("scan", [table |-> t], r))

ListKeys(T) ==
    \E t \in T : \E r \in {lspk(fs, t)} :
        Done(r, Call("list_keys", [table |-> t], r))

ListTables ==
    \E r \in {lsdb(fs)} : Done(r, Call("list_tables", NoArgs, r))

(***************************************************************************)
(* Spec: one writer working on one table with two keys and one index.      *)
(***************************************************************************)
TBL == <<"t">>
FLD == <<"f">>
GLD == <<"g">>
KA == <<"a">>
KB == <<"b">>
VX == <<"x">>
V1 == <<"1">>
\* "../a": a value that is a relative path to the record a
UPA == <<".", ".", "/", "a">>

Tables == {TBL}
Keys == {KA, KB}
Fields == {FLD}
\* Documents: the empty one, one without the indexed field, and three with
\* it: a string, a number, and a string that is a relative path.
PlainDocs ==
    {<<>>, <<<<GLD, StrVal(VX)>>>>, <<<<FLD, StrVal(VX)>>>>, <<<<FLD, IntVal(1)>>>>}
Docs == PlainDocs \cup {<<<<FLD, StrVal(UPA)>>>>}
\* The string forms of the values of the indexed field.
PlainValues == {VX, V1}
Values == PlainValues \cup {UPA}

Next ==
    \/ Create(Tables)
    \/ Drop(Tables)
    \/ Insert(Tables, Keys, Docs)
    \/ Update(Tables, Keys, Docs)
    \/ Upsert(Tables, Keys, Docs)
    \/ Get(Tables, Keys)
    \/ Delete(Tables, Keys)
    \/ CreateIndex(Tables, Fields)
    \/ Find(Tables, Fields, Values)

Spec == Init /\ [][Next]_vars


(***************************************************************************)
(* SpecPlain: the same writer, with documents whose values are plain       *)
(* words and numbers only.                                                 *)
(***************************************************************************)
NextPlain ==
    \/ Create(Tables)
    \/ Drop(Tables)
    \/ Insert(Tables, Keys, PlainDocs)
    \/ Update(Tables, Keys, PlainDocs)
    \/ Upsert(Tables, Keys, PlainDocs)
    \/ Get(Tables, Keys)
    \/ Delete(Tables, Keys)
    \/ CreateIndex(Tables, Fields)
    \/ Find(Tables, Fields, PlainValues)

SpecPlain == Init /\ [][NextPlain]_vars

(***************************************************************************)
(* SpecGuard: one writer calling every operation that takes a name, with   *)
(* names that hold "..", "/" or "\" among the arguments.                   *)
(***************************************************************************)
\* "../etc": the directory beside the root
UPETC == <<".", ".", "/", "e", "t", "c">>
\* "a\b"
BSKEY == <<"a", "\\", "b">>

GuardTables == {TBL, UPETC}
GuardKeys == {KA, UPA, BSKEY}
GuardFields == {FLD, DOTDOT}
GuardValues == {VX, UPA}
GuardDocs == {<<<<FLD, StrVal(VX)>>>>}

NextGuard ==
    \/ Drop(GuardTables)
    \/ Create(GuardTables)
    \/ Insert(GuardTables, GuardKeys, GuardDocs)
    \/ Update(GuardTables, GuardKeys, GuardDocs)
    \/ Upsert(GuardTables, GuardKeys, GuardDocs)
    \/ Get(GuardTables, GuardKeys)
    \/ Delete(GuardTables, GuardKeys)
    \/ ListKeys(GuardTables)
    \/ HasIndex(GuardTables, GuardFields)
    \/ CreateIndex(GuardTables, GuardFields)
    \/ Find(GuardTables, GuardFields, GuardValues)
    \/ Link(GuardTables, GuardKeys, GuardKeys, {None})
    \/ QueryLinks(GuardTables)
    \/ Scan(GuardTables)

SpecGuard == Init /\ [][NextGuard]_vars

(***************************************************************************)
(* SpecConc: several processes call the engine on one table and one        *)
(* record at the same time.  A call is a sequence of steps, one per access *)
(* to the shared directory tree; the steps of different processes          *)
(* interleave.  shutil.move renames the temporary file when the scratch    *)
(* directory and the root are on one filesystem, and otherwise copies it   *)
(* over the record (open for writing, write, remove the source).           *)
(***************************************************************************)
NumProcs == 2
MaxCalls == 2

Procs == 1..NumProcs
ConcKeys == {KA}
ConcDocs == {<<<<FLD, StrVal(VX)>>>>, <<<<FLD, IntVal(1)>>>>}

\* A process between calls: the number of calls it has made and the
\* outcomes of its insert calls so far.
Idle(n, res) ==
    [pc |-> "idle", op |-> "none", table |-> <<>>, pk |-> <<>>, doc |-> <<>>,
     current |-> None, had |-> FALSE, before |-> <<>>, res |-> res, calls |-> n]

InitConc ==
    /\ fs = InitFS
    /\ last = NoCall
    /\ procs = [p \in Procs |-> Idle(0, <<>>)]
    /\ sameFS \in BOOLEAN

\* The uuid1 of a call of process p: no two processes draw the same.
ProcUUID(p) == <<"u">> \o Digits(p)
ProcTmp(p) == TmpPath(procs[p].table, procs[p].pk, ProcUUID(p))
ProcTarget(p) == _target_f(procs[p].table, procs[p].pk).path

\* Process p goes on to step pc of its call.
Goto(p, f, pc) ==
    /\ fs' = f
    /\ procs' = [procs EXCEPT ![p].pc = pc]
    /\ UNCHANGED <<last, sameFS>>

\* The call of process p ends with outcome r.
Finish(p, r) ==
    /\ fs' = r.fs
    /\ last' = Call(procs[p].op,
                    [table |-> procs[p].table, pk |-> procs[p].pk,
                     doc |-> IF procs[p].op = "get" THEN None ELSE Some(procs[p].doc),
                     had |-> procs[p].had, by |-> p], r)
    /\ procs' = [procs EXCEPT ![p] =
                    Idle(procs[p].calls,
                         IF procs[p].op = "insert"
                         THEN Append(procs[p].res, [err |-> r.err, doc |-> procs[p].doc])
                         ELSE procs[p].res)]
    /\ UNCHANGED sameFS

\* create(table): one mkdir.
CCreate(p) ==
    /\ procs[p].pc = "idle" /\ procs[p].calls < MaxCalls
    /\ LET r == create(fs, TBL)
       IN  /\ fs' = r.fs
           /\ last' = Call("create", [table |-> TBL, by |-> p], r)
           /\ procs' = [procs EXCEPT ![p].calls = @ + 1]
           /\ UNCHANGED sameFS

\* A process starts one of the given operations on the record.
CBeginOp(p, ops) ==
    /\ procs[p].pc = "idle" /\ procs[p].calls < MaxCalls
    /\ \E op \in ops, k \in ConcKeys, d \in ConcDocs :
        /\ op = "get" => d = CHOOSE e \in ConcDocs : TRUE
        /\ procs' = [procs EXCEPT ![p] =
                        [pc |-> IF op = "insert" THEN "ins_exists" ELSE "get_stat",
                         op |-> op, table |-> TBL, pk |-> k, doc |-> d, current |-> None,
                         had |-> is_file(fs, _target_f(TBL, k).path),
                         before |-> read_file(fs, _target_f(TBL, k).path),
                         res |-> procs[p].res,
                         calls |-> procs[p].calls + 1]]
        /\ UNCHANGED <<fs, last, sameFS>>

\* A process starts insert, update, upsert or get on the record.
CBegin(p) == CBeginOp(p, {"insert", "update", "upsert", "get"})

\* A process starts insert on the record.
CBeginInsert(p) == CBeginOp(p, {"insert"})

\* insert: "if self._target_f(table, pk).exists()".
CInsExists(p) ==
    /\ procs[p].pc = "ins_exists"
    /\ IF exists(fs, ProcTarget(p))
       THEN Finish(p, Raise(fs, "FileExistsError"))
       ELSE Goto(p, fs, "w_table")

\* get: "p.exists() and p.is_file()".
CGetStat(p) ==
    /\ procs[p].pc = "get_stat"
    /\ IF exists(fs, ProcTarget(p)) /\ is_file(fs, ProcTarget(p))
       THEN Goto(p, fs, "get_read")
       ELSE CASE procs[p].op = "get" -> Finish(p, Ret(fs, None))
              [] procs[p].op = "update" -> Finish(p, Raise(fs, "FileNotFoundError"))
              [] OTHER -> Goto(p, fs, "w_table")

\* get: open, read and parse; any exception gives None.
CGetRead(p) ==
    /\ procs[p].pc = "get_read"
    /\ LET r == read_file(fs, ProcTarget(p))
           cur == IF r = <<>> THEN None ELSE loads(r[1])
       IN  CASE procs[p].op = "get" -> Finish(p, Ret(fs, cur))
             [] procs[p].op = "update" /\ ~Truthy(cur) ->
                    Finish(p, Raise(fs, "FileNotFoundError"))
             [] OTHER ->
                    /\ procs' = [procs EXCEPT ![p].pc = "w_table", ![p].current = cur]
                    /\ UNCHANGED <<fs, last, sameFS>>

\* _write: "if not self._target_f(table).exists()".
CWriteTable(p) ==
    /\ procs[p].pc = "w_table"
    /\ IF ~exists(fs, _target_f(procs[p].table, <<>>).path)
       THEN Finish(p, Raise(fs, "FileNotFoundError"))
       ELSE Goto(p, fs, "w_tmp")

\* _write: the temporary file is created and the document dumped into it.
CWriteTmp(p) ==
    /\ procs[p].pc = "w_tmp"
    /\ LET o == open_w(fs, ProcTmp(p))
       IN  IF o.err # "none" THEN Finish(p, WriteCleanup(o.fs, ProcTmp(p), o.err))
           ELSE Goto(p, write_to(o.fs, ProcTmp(p), dumps(procs[p].doc)), "w_move")

\* _write: shutil.move.  On one filesystem it is the rename; across
\* filesystems it opens the destination for writing, which empties it.
CWriteMove(p) ==
    /\ procs[p].pc = "w_move"
    /\ LET m == IF sameFS THEN move(fs, ProcTmp(p), ProcTarget(p))
                ELSE open_w(fs, ProcTarget(p))
       IN  IF m.err # "none" THEN Finish(p, WriteCleanup(m.fs, ProcTmp(p), m.err))
           ELSE Goto(p, m.fs, IF sameFS THEN "index" ELSE "w_copy")

\* shutil.move across filesystems: the text is copied into the record file.
CWriteCopy(p) ==
    /\ procs[p].pc = "w_copy"
    /\ IF is_file(fs, ProcTarget(p))
       THEN Goto(p, write_to(fs, ProcTarget(p), read_file(fs, ProcTmp(p))[1]), "w_unlink")
       ELSE Goto(p, fs, "w_unlink")

\* shutil.move across filesystems: the temporary file is removed.
CWriteUnlink(p) ==
    /\ procs[p].pc = "w_unlink"
    /\ LET u == unlink(fs, ProcTmp(p), FALSE)
       IN  IF u.err # "none" THEN Finish(p, WriteCleanup(u.fs, ProcTmp(p), u.err))
           ELSE Goto(p, u.fs, "index")

\* _update_index(table, pk, current, data), then the call returns.
CIndex(p) ==
    /\ procs[p].pc = "index"
    /\ \E r \in _update_index(fs, procs[p].table, procs[p].pk, procs[p].current,
                              Some(procs[p].doc)) :
        Finish(p, r)

NextConc ==
    \E p \in Procs :
        \/ CCreate(p)
        \/ CBegin(p)
        \/ CInsExists(p)
        \/ CGetStat(p)
        \/ CGetRead(p)
        \/ CWriteTable(p)
        \/ CWriteTmp(p)
        \/ CWriteMove(p)
        \/ CWriteCopy(p)
        \/ CWriteUnlink(p)
        \/ CIndex(p)

SpecConc == InitConc /\ [][NextConc]_vars

(***************************************************************************)
(* SpecIns: several processes insert at one key at the same time.          *)
(***************************************************************************)
NextIns ==
    \E p \in Procs :
        \/ CCreate(p)
        \/ CBeginInsert(p)
        \/ CInsExists(p)
        \/ CWriteTable(p)
        \/ CWriteTmp(p)
        \/ CWriteMove(p)
        \/ CWriteCopy(p)
        \/ CWriteUnlink(p)
        \/ CIndex(p)

SpecIns == InitConc /\ [][NextIns]_vars

(***************************************************************************)
(* SpecFail: the processes take turns, one call at a time, and an I/O step *)
(* of _write may fail: the dump into the temporary file (json.dump raises, *)
(* or the disk is full), the rename, and, across filesystems, the copy     *)
(* into the record file after it was opened.                               *)
(***************************************************************************)
Alone(p) == \A q \in Procs \ {p} : procs[q].pc = "idle"

\* json.dump raises after part of the text went into the temporary file.
CFailTmp(p) ==
    /\ procs[p].pc = "w_tmp"
    /\ LET o == open_w(fs, ProcTmp(p))
       IN  /\ o.err = "none"
           /\ \E e \in {"TypeError", "OSError"} :
                Finish(p, WriteCleanup(write_to(o.fs, ProcTmp(p), <<"{">>), ProcTmp(p), e))

\* shutil.move: os.rename fails and the copy it falls back to cannot open
\* the destination; nothing was changed.
CFailMove(p) ==
    /\ procs[p].pc = "w_move"
    /\ Finish(p, WriteCleanup(fs, ProcTmp(p), "OSError"))

\* shutil.move across filesystems: the copy fails after the destination
\* was opened for writing.
CFailCopy(p) ==
    /\ procs[p].pc = "w_copy"
    /\ Finish(p, WriteCleanup(fs, ProcTmp(p), "OSError"))

NextFail ==
    \E p \in Procs :
        \/ Alone(p) /\ CCreate(p)
        \/ Alone(p) /\ CBegin(p)
        \/ Alone(p) /\ CInsExists(p)
        \/ Alone(p) /\ CGetStat(p)
        \/ Alone(p) /\ CGetRead(p)
        \/ Alone(p) /\ CWriteTable(p)
        \/ Alone(p) /\ CWriteTmp(p)
        \/ Alone(p) /\ CWriteMove(p)
        \/ Alone(p) /\ CWriteCopy(p)
        \/ Alone(p) /\ CWriteUnlink(p)
        \/ Alone(p) /\ CIndex(p)
        \/ Alone(p) /\ CFailTmp(p)
        \/ Alone(p) /\ CFailMove(p)
        \/ Alone(p) /\ CFailCopy(p)

SpecFail == InitConc /\ [][NextFail]_vars

(***************************************************************************)
(* SpecLink: one writer relating the records of one table.  A key may be   *)
(* the empty string and a field name may hold ":".                         *)
(***************************************************************************)
EMPTY == <<>>
\* "p:q"
PQ == <<"p", ":", "q">>

LinkKeys == {KA, EMPTY}
LinkFields == {FLD, PQ}
\* The data argument of link: left out, or a document.
LinkData == {None, Some(<<<<GLD, StrVal(VX)>>>>)}
LinkDocs == {<<<<FLD, StrVal(VX)>>>>}

NextLink ==
    \/ Create(Tables)
    \/ Insert(Tables, LinkKeys, LinkDocs)
    \/ Delete(Tables, LinkKeys)
    \/ CreateIndex(Tables, LinkFields)
    \/ Link(Tables, LinkKeys, {KA}, LinkData)
    \/ QueryLinks(Tables)
    \/ Scan(Tables)
    \/ ListKeys(Tables)

SpecLink == Init /\ [][NextLink]_vars

(***************************************************************************)
(* SpecTables: one writer creating and dropping tables and writing to      *)
(* tables that may not be there.  A table name may be the empty string.    *)
(***************************************************************************)
UBL == <<"u">>

TableNames == {TBL, UBL, EMPTY}
TableKeys == {KA}
TableDocs == {<<<<FLD, StrVal(VX)>>>>}

NextTables ==
    \/ Create(TableNames)
    \/ Drop(TableNames)
    \/ Insert(TableNames, TableKeys, TableDocs)
    \/ Update(TableNames, TableKeys, TableDocs)
    \/ Upsert(TableNames, TableKeys, TableDocs)
    \/ Link(TableNames, TableKeys, TableKeys, {None})
    \/ CreateIndex(TableNames, Fields)
    \/ ListTables

SpecTables == Init /\ [][NextTables]_vars

(***************************************************************************)
(* SpecSound: one writer on a table with two indexes; a document may give  *)
(* a field the empty string, on which the index update raises after the    *)
(* record was written.                                                     *)
(***************************************************************************)
SoundFields == {FLD, GLD}
SoundDocs ==
    {<<<<FLD, StrVal(VX)>>, <<GLD, StrVal(VX)>>>>,
     <<<<FLD, IntVal(1)>>, <<GLD, StrVal(<<>>)>>>>}

NextSound ==
    \/ Create(Tables)
    \/ CreateIndex(Tables, SoundFields)
    \/ Insert(Tables, Keys, SoundDocs)
    \/ Update(Tables, Keys, SoundDocs)
    \/ Upsert(Tables, Keys, SoundDocs)
    \/ Delete(Tables, Keys)
    \/ Find(Tables, SoundFields, PlainValues)

SpecSound == Init /\ [][NextSound]_vars

(***************************************************************************)
(* What a state holds, for the statements below.                           *)
(***************************************************************************)
TableDir(t) == Join(ROOT, t)
IndexDir(t, fl) == Join(TableDir(t), AT \o fl)
WriteOps == {"insert", "update", "upsert"}

\* The names under the table whose file holds a document (plain records
\* and link records alike), and the document of each.
RecordNames(f, t) ==
    {n \in listdir(f, TableDir(t)) :
        is_file(f, Join(TableDir(t), n)) /\ loads(read_file(f, Join(TableDir(t), n))[1]) # None}
DocOf(f, t, n) == loads(read_file(f, Join(TableDir(t), n))[1])[1]

\* The string forms of field fl over the records of the table.
FieldValues(f, t, fl) ==
    {str(Lookup(DocOf(f, t, n), fl)) : n \in {m \in RecordNames(f, t) : HasKey(DocOf(f, t, m), fl)}}

\* C1 (as claimed): after every completed insert, update, upsert or delete
\* on a table with index f, the names of the entries under @f are exactly
\* the string forms of f over the records now in the table.
C1_IndexIff ==
    (last.op \in WriteOps \cup {"delete"} /\ is_dir(fs, IndexDir(last.table, FLD)))
        => listdir(fs, IndexDir(last.table, FLD)) = FieldValues(fs, last.table, FLD)


\* The paths at which two filesystems differ.
Changed(f, g) ==
    {p \in DOMAIN f \cup DOMAIN g : p \notin DOMAIN f \/ p \notin DOMAIN g \/ f[p] # g[p]}

\* Whether a call was given a name holding "..", "/" or "\".
HasUnsafeArg(c) ==
    \/ Unsafe(c.table) \/ Unsafe(c.pk) \/ Unsafe(c.field) \/ Unsafe(c.value)
    \/ Unsafe(c.table2) \/ Unsafe(c.pk2)

\* C2 (as claimed): every call given a table name, key, field or value
\* holding "..", "/" or "\" raises the unsafe-name error and changes nothing
\* on disk, and no call changes anything outside the directory of the table
\* it names.
C2_PathGuard ==
    [][/\ HasUnsafeArg(last') => (last'.err = "ValueError" /\ fs' = fs)
       /\ \A p \in Changed(fs, fs') : IsPrefix(Join(ROOT, last'.table), p)]_vars


\* C3 (as claimed): with processes writing and reading one record at the
\* same time, the record file, whenever present, holds one complete
\* document that some write supplied, and a get that began when the record
\* was present returns such a document, never nothing.
C3_AtomicRecord ==
    /\ \A k \in ConcKeys :
          is_file(fs, Join(TableDir(TBL), k))
              => loads(read_file(fs, Join(TableDir(TBL), k))[1]) \in {Some(d) : d \in ConcDocs}
    /\ (last.op = "get" /\ last.had) => last.ret.doc \in {Some(d) : d \in ConcDocs}


\* A record is present at key k of table t.
RecordAt(f, t, k) == is_file(f, Join(TableDir(t), k))

\* C4 (as claimed): on an existing table, for a key at which nothing is
\* present and any document, insert succeeds and a get that follows
\* returns the document unchanged.
C4_RoundTrip ==
    [][(/\ last'.op = "insert"
        /\ is_dir(fs, TableDir(last'.table))
        /\ ~exists(fs, Join(TableDir(last'.table), last'.pk)))
          => (/\ last'.err = "none"
              /\ get(fs', last'.table, last'.pk).ret = last'.doc)]_vars

\* C5: insert on a key at which a record is present raises AlreadyExists
\* (FileExistsError) and leaves the whole directory tree, and so the prior
\* document, every index entry and the scratch directory, as it was.
C5_InsertExists ==
    [][(last'.op = "insert" /\ RecordAt(fs, last'.table, last'.pk))
          => (last'.err = "FileExistsError" /\ fs' = fs)]_vars

\* C5's case: an insert has just been refused at a key whose record holds
\* another document than the one offered, under an index.
C5_Witness ==
    /\ last.op = "insert" /\ last.err = "FileExistsError"
    /\ RecordAt(fs, last.table, last.pk)
    /\ get(fs, last.table, last.pk).ret # last.doc
    /\ listdir(fs, IndexDir(last.table, FLD)) # {}

\* C6 (as claimed): update raises NotFound exactly when no record is at the
\* key, and then creates nothing; when a record is there, whatever its
\* document, update succeeds and a get that follows returns the new one.
C6_UpdatePrecondition ==
    [][last'.op = "update"
          => IF RecordAt(fs, last'.table, last'.pk)
             THEN /\ last'.err = "none"
                  /\ get(fs', last'.table, last'.pk).ret = last'.doc
             ELSE last'.err = "FileNotFoundError" /\ fs' = fs]_vars

\* C7 (as claimed): delete returns false and changes nothing when no record
\* is at the key; when a record is there, whatever its document, it returns
\* true, the record is gone and a delete repeated at once returns false.
C7_DeleteResult ==
    [][last'.op = "delete"
          => IF RecordAt(fs, last'.table, last'.pk)
             THEN /\ last'.err = "none" /\ last'.ret.bool = TRUE
                  /\ get(fs', last'.table, last'.pk).ret = None
                  /\ \A r \in delete(fs', last'.table, last'.pk) : r.ret = FALSE
             ELSE last'.err = "none" /\ last'.ret.bool = FALSE /\ fs' = fs]_vars


\* The index entry named v of index fl is a link whose target is ../pk.
PointsAt(f, t, fl, v, pk) ==
    /\ is_symlink(f, Join(IndexDir(t, fl), v))
    /\ readlink(f, Join(IndexDir(t, fl), v)) = <<DOTDOT, pk>>

\* C8 (as claimed): with index f on the table, right after a successful
\* insert, update or upsert of a document that has f, find by the string
\* form of its value returns that document; and right after a successful
\* delete of the record an entry pointed at, find by that entry's name
\* returns nothing.
C8_IndexLookup ==
    [][/\ (/\ last'.op \in WriteOps /\ last'.err = "none"
           /\ is_dir(fs, IndexDir(last'.table, FLD))
           /\ HasKey(last'.doc[1], FLD))
             => find(fs', last'.table, FLD, str(Lookup(last'.doc[1], FLD))).ret = last'.doc
       /\ (last'.op = "delete" /\ last'.err = "none" /\ last'.ret.bool)
             => \A v \in listdir(fs, IndexDir(last'.table, FLD)) :
                   PointsAt(fs, last'.table, FLD, v, last'.pk)
                       => find(fs', last'.table, FLD, v).ret = None]_vars

\* The string form of field fl in an optional document, <<>> if it has none.
FieldStr(opt, fl) ==
    IF opt # None /\ HasKey(opt[1], fl) THEN <<str(Lookup(opt[1], fl))>> ELSE <<>>

\* C9 (as claimed): with index f, when update or upsert rewrites a record
\* whose document has f = x to a document with f = y, x # y, and no other
\* record has f = x, then find by x returns nothing, find by y returns the
\* new document, and no entry named x points at the record.
C9_ValueChange ==
    [][LET t == last'.table
           pk == last'.pk
           x == FieldStr(get(fs, t, pk).ret, FLD)
           y == FieldStr(last'.doc, FLD)
       IN  (/\ last'.op \in {"update", "upsert"} /\ last'.err = "none"
            /\ is_dir(fs, IndexDir(t, FLD))
            /\ x # <<>> /\ y # <<>> /\ x # y
            /\ \A n \in RecordNames(fs, t) \ {pk} : FieldStr(Some(DocOf(fs, t, n)), FLD) # x)
              => (/\ find(fs', t, FLD, x[1]).ret = None
                  /\ find(fs', t, FLD, y[1]).ret = last'.doc
                  /\ ~PointsAt(fs', t, FLD, x[1], pk))]_vars

\* The string forms of field fl over the plain records (no ":" in the key).
PlainFieldValues(f, t, fl) ==
    {str(Lookup(DocOf(f, t, n), fl)) :
        n \in {m \in RecordNames(f, t) : ~StrIn(COLON, m) /\ HasKey(DocOf(f, t, m), fl)}}

\* C10 (as claimed): after create_index on a table that holds records, find
\* by the string form v of f in any plain record that was there returns a
\* document whose f has string form v, no entry stands for a value no
\* record has, and later writes keep the entries in step with the records.
C10_Backfill ==
    [][/\ (last'.op = "create_index" /\ last'.err = "none")
             => (/\ \A v \in PlainFieldValues(fs, last'.table, FLD) :
                       FieldStr(find(fs', last'.table, FLD, v).ret, FLD) = <<v>>
                 /\ listdir(fs', IndexDir(last'.table, FLD))
                        \subseteq FieldValues(fs', last'.table, FLD))
       /\ (last'.op \in WriteOps \cup {"delete"} /\ is_dir(fs', IndexDir(last'.table, FLD)))
             => listdir(fs', IndexDir(last'.table, FLD)) = FieldValues(fs', last'.table, FLD)]_vars

\* C11 (as claimed): link raises NotFound and changes nothing when the
\* source record or the destination record is not there; when both are
\* there it succeeds and the record "<src_pk>:<dest_pk>" of the source table
\* then holds the document given, the empty document when none was given.
C11_LinkPrecondition ==
    [][last'.op = "link"
          => IF /\ RecordAt(fs, last'.table, last'.pk)
                /\ RecordAt(fs, last'.table2, last'.pk2)
             THEN /\ last'.err = "none"
                  /\ get(fs', last'.table, last'.pk \o COLON \o last'.pk2).ret
                        = Some(IF Truthy(last'.doc) THEN last'.doc[1] ELSE <<>>)
             ELSE last'.err = "FileNotFoundError" /\ fs' = fs]_vars

\* The names of the link records of a table: the files with ":" in the name.
LinkNames(f, t) ==
    {n \in listdir(f, TableDir(t)) : StrIn(COLON, n) /\ is_file(f, Join(TableDir(t), n))}

\* C12 (as claimed): with keys that hold no ":", query_links returns exactly
\* the pairs <<a, b>> of the link records "a:b" now in the table, whatever
\* the names of the indexed fields, and neither scan nor list_keys returns
\* a link record.
C12_LinkEnumeration ==
    [][/\ (last'.op = "query_links" /\ last'.err = "none")
             => last'.ret.links
                    = {<<partition(n, ":")[1], partition(n, ":")[3]>> :
                          n \in LinkNames(fs', last'.table)}
       /\ (last'.op = "scan" /\ last'.err = "none")
             => \A i \in 1..Len(last'.ret.list) : ~StrIn(COLON, last'.ret.list[i][1])
       /\ (last'.op = "list_keys" /\ last'.err = "none")
             => \A n \in last'.ret.names : ~StrIn(COLON, n)]_vars

\* The tables list_tables() reports: none when the call fails.
ListedTables(f) == IF lsdb(f).err = "none" THEN lsdb(f).ret ELSE {}

\* C13 (as claimed): for every name, the empty one included, drop of a
\* table that is not there returns false and changes nothing; drop of a
\* table that is there returns true, nothing is left at or under the
\* table's directory, list_tables() loses that name and no other, and
\* nothing outside the table's directory changes.
C13_DropExactly ==
    [][last'.op = "drop"
          => IF last'.table \notin ListedTables(fs)
             THEN last'.err = "none" /\ last'.ret.bool = FALSE /\ fs' = fs
             ELSE /\ last'.err = "none" /\ last'.ret.bool = TRUE
                  /\ ~exists(fs', TableDir(last'.table))
                  /\ ListedTables(fs') = ListedTables(fs) \ {last'.table}
                  /\ \A p \in Changed(fs, fs') : IsPrefix(TableDir(last'.table), p)]_vars

\* C14 (as claimed): a step adds a name to list_tables() only if it is a
\* successful create of that name, a successful drop takes its name out,
\* and insert, update, upsert, link and create_index on a table that
\* list_tables() does not report raise an error and leave list_tables() and
\* the scratch directory as they were.
C14_NoImplicitTables ==
    [][/\ ListedTables(fs') \subseteq
              ListedTables(fs) \cup (IF last'.op = "create" /\ last'.err = "none"
                                     THEN {last'.table} ELSE {})
       /\ (last'.op = "drop" /\ last'.err = "none" /\ last'.ret.bool)
             => last'.table \notin ListedTables(fs')
       /\ (/\ last'.op \in WriteOps \cup {"link", "create_index"}
           /\ last'.table \notin ListedTables(fs))
             => (/\ last'.err # "none"
                 /\ ListedTables(fs') = ListedTables(fs)
                 /\ listdir(fs', WORKDIR) = listdir(fs, WORKDIR))]_vars

\* C15 (as claimed): when a write that had reached its temporary file ends
\* with an error, the temporary file is gone and the record file holds what
\* it held when the call began (nothing, if there was none); and whenever
\* no call is in progress the scratch directory is empty.
C15_FailedWriteCleansUp ==
    [][/\ \A p \in Procs :
            (/\ procs[p].pc \in {"w_tmp", "w_move", "w_copy", "w_unlink"}
             /\ procs'[p].pc = "idle"
             /\ last'.err # "none")
               => (/\ ~exists(fs', ProcTmp(p))
                   /\ read_file(fs', ProcTarget(p)) = procs[p].before)
       /\ (\A p \in Procs : procs'[p].pc = "idle") => listdir(fs', WORKDIR) = {}]_vars

\* C16 (as claimed, the single-writer half): with one writer and no crash,
\* in every state between completed calls each entry of the index @f leads
\* to a record file of the table.
C16_NoDanglingEntry ==
    \A t \in Tables : \A v \in listdir(fs, IndexDir(t, FLD)) :
        is_file(fs, Join(IndexDir(t, FLD), v))

\* The insert calls completed so far, as <<process, number>>, and those
\* that returned normally.
InsertCalls == {c \in Procs \X (1..MaxCalls) : c[2] <= Len(procs[c[1]].res)}
InsertWins == {c \in InsertCalls : procs[c[1]].res[c[2]].err = "none"}

\* C19 (as claimed): of the inserts that processes make at one key at the
\* same time, at most one returns normally; every other one raises
\* AlreadyExists (or NotFound, when the table was not yet there); and once
\* all calls have returned the record holds the document of the insert
\* that returned normally.
C19_InsertOnce ==
    /\ Cardinality(InsertWins) <= 1
    /\ \A c \in InsertCalls \ InsertWins :
          procs[c[1]].res[c[2]].err \in {"FileExistsError", "FileNotFoundError"}
    /\ (\A p \in Procs : procs[p].pc = "idle")
          => \A c \in InsertWins :
                get(fs, TBL, KA).ret = Some(procs[c[1]].res[c[2]].doc)

\* C17 (as claimed): with index f, when a record pk whose document has
\* f = x is deleted, or rewritten by update or upsert to a document that
\* does not have f = x, an entry x that points at another record k2 stays
\* and still points at k2, find by x still returns k2's document, and the
\* entry x goes away only if it pointed at pk.
C17_GuardedRemoval ==
    [][LET t == last'.table
           pk == last'.pk
           x == FieldStr(get(fs, t, pk).ret, FLD)
           y == FieldStr(last'.doc, FLD)
       IN  (/\ last'.op \in {"update", "upsert", "delete"} /\ last'.err = "none"
            /\ (last'.op = "delete" => last'.ret.bool)
            /\ is_dir(fs, IndexDir(t, FLD))
            /\ x # <<>> /\ y # x)
              => (/\ \A k2 \in Keys \ {pk} :
                        PointsAt(fs, t, FLD, x[1], k2)
                            => (/\ PointsAt(fs', t, FLD, x[1], k2)
                                /\ find(fs', t, FLD, x[1]).ret = get(fs, t, k2).ret)
                  /\ (/\ x[1] \in listdir(fs, IndexDir(t, FLD))
                      /\ x[1] \notin listdir(fs', IndexDir(t, FLD)))
                        => PointsAt(fs, t, FLD, x[1], pk))]_vars

\* What lies at key k of table t: nothing, or the node there.
NodeAt(f, t, k) ==
    IF Append(TableDir(t), k) \in DOMAIN f THEN <<f[Append(TableDir(t), k)]>> ELSE <<>>

\* C18 (as claimed): for every document and every value of the indexed
\* field, create_index changes no record file, and insert, update, upsert
\* and delete of record pk change no record file but that of pk, which
\* after a successful write holds the document written.
C18_IndexLeavesRecords ==
    [][/\ last'.op = "create_index"
             => \A k \in Keys : NodeAt(fs', last'.table, k) = NodeAt(fs, last'.table, k)
       /\ last'.op \in WriteOps \cup {"delete"}
             => \A k \in Keys \ {last'.pk} :
                    NodeAt(fs', last'.table, k) = NodeAt(fs, last'.table, k)
       /\ (last'.op \in WriteOps /\ last'.err = "none")
             => NodeAt(fs', last'.table, last'.pk) = <<FileNode(dumps(last'.doc[1]))>>]_vars

\* C20 (as claimed): with one writer, also after calls that raised partway,
\* a document that find(T, f, v) returns is the document now held by some
\* record of T and the string form of its f is v; and no entry of an index
\* names a value that the record it points at does not have.
C20_IndexSound ==
    [][/\ (last'.op = "find" /\ last'.err = "none" /\ last'.ret.doc # None)
             => (/\ \E k \in RecordNames(fs', last'.table) :
                        DocOf(fs', last'.table, k) = last'.ret.doc[1]
                 /\ FieldStr(last'.ret.doc, last'.field) = <<last'.value>>)
       /\ \A t \in Tables, fl \in SoundFields, k \in Keys :
             \A v \in listdir(fs', IndexDir(t, fl)) :
                (PointsAt(fs', t, fl, v, k) /\ RecordAt(fs', t, k))
                    => FieldStr(get(fs', t, k).ret, fl) = <<v>>]_vars

====
